---- MODULE Spec2Model ----
(***************************************************************************)
(* A model of toast's entry point (src/toast/src/main.rs): the panic       *)
(* report (MyPanicMessage::display, custom_url), the node version gate     *)
(* (check_node_version), npm bin discovery (get_npm_bin_dir) and main.     *)
(*                                                                         *)
(* Text is a sequence of one-character strings, except where a whole word  *)
(* of unreserved characters is kept as one token (panic report).           *)
(***************************************************************************)
EXTENDS Integers, Sequences, FiniteSets, TLC

VARIABLES
    feature,                \* build has the capture-spantrace feature
    fs,                     \* the filesystem: [dirs, files, links]
    fs0,                    \* the filesystem when the process started
    pc,                     \* main's position
    log,                    \* operations performed so far, in order
    hooks,                  \* number of panic hooks installed so far
    gate,                   \* "pending", then how check_node_version returned
    version_string,         \* check_node_version: local, stdout of 'node -v'
    version_string_trimmed, \* check_node_version: local
    current_node_version_result, \* check_node_version: local
    npm_bin_dir,            \* main: local
    npm_exit_ok,            \* whether `npm bin` exited with status 0
    opt,                    \* main: the parsed directive
    contents,               \* main: text read from import-map.json
    import_map,             \* main: the parsed import map
    public_at_read,         \* whether <input_dir>/public was a directory at the read
    config,                 \* the IncrementalOpts handed to incremental_compile
    panic,                  \* the fault in flight: [payload, location]
    report,                 \* what MyPanicMessage::display wrote, and its result
    outcome                 \* how the process ended

vars == << feature, fs, fs0, pc, log, hooks, gate, version_string,
           version_string_trimmed, current_node_version_result, npm_bin_dir,
           npm_exit_ok, opt, contents, import_map, public_at_read, config, panic,
           report, outcome >>

----------------------------------------------------------------------------
(* Bounds of the model *)

\* node versions tried: majors MinMajor..MaxMajor, minors 0..MaxMinor, ...
MaxMajor == 15
MaxMinor == 1
MaxPatch == 1
\* at most this many leading "v" characters in the output of 'node -v'
MaxV == 2

----------------------------------------------------------------------------
(* Text helpers *)

Digits == << "0", "1", "2", "3", "4", "5", "6", "7", "8", "9" >>

IsDigit(c) == \E i \in 1..10 : Digits[i] = c

DigitVal(c) == (CHOOSE i \in 1..10 : Digits[i] = c) - 1

\* ASCII order of the characters the model uses in identifiers
Alphabet == << "-", "0", "1", "2", "3", "4", "5", "6", "7", "8", "9",
               "a", "b", "c", "h", "l", "p", "r", "x" >>

IsIdentChar(c) == \E i \in 1..Len(Alphabet) : Alphabet[i] = c

CharOrd(c) == CHOOSE i \in 1..Len(Alphabet) : Alphabet[i] = c

IsSpace(c) == c \in { " ", "\n", "\t", "\r" }

RECURSIVE NumOf(_)
NumOf(s) ==
    IF s = << >> THEN 0
    ELSE NumOf(SubSeq(s, 1, Len(s) - 1)) * 10 + DigitVal(s[Len(s)])

RECURSIVE DigitsOf(_)
DigitsOf(n) ==
    IF n < 10 THEN << Digits[n + 1] >>
    ELSE DigitsOf(n \div 10) \o << Digits[(n % 10) + 1] >>

RECURSIVE TrimStartSpace(_)
TrimStartSpace(s) ==
    IF s # << >> /\ IsSpace(s[1]) THEN TrimStartSpace(Tail(s)) ELSE s

RECURSIVE TrimEndSpace(_)
TrimEndSpace(s) ==
    IF s # << >> /\ IsSpace(s[Len(s)])
    THEN TrimEndSpace(SubSeq(s, 1, Len(s) - 1))
    ELSE s

Trim(s) == TrimEndSpace(TrimStartSpace(s))

\* index of the first c in s, 0 when there is none
IndexOf(s, c) ==
    IF \E i \in 1..Len(s) : s[i] = c
    THEN CHOOSE i \in 1..Len(s) : s[i] = c /\ \A j \in 1..(i - 1) : s[j] # c
    ELSE 0

RECURSIVE SplitOn(_, _)
SplitOn(s, c) ==
    LET i == IndexOf(s, c)
    IN  IF i = 0 THEN << s >>
        ELSE << SubSeq(s, 1, i - 1) >> \o SplitOn(SubSeq(s, i + 1, Len(s)), c)

RECURSIVE Concat(_)
Concat(ss) == IF ss = << >> THEN << >> ELSE Head(ss) \o Concat(Tail(ss))

RECURSIVE JoinWith(_, _)
JoinWith(ss, c) ==
    IF ss = << >> THEN << >>
    ELSE IF Len(ss) = 1 THEN ss[1]
    ELSE ss[1] \o << c >> \o JoinWith(Tail(ss), c)

\* whether text t occurs in text s as a contiguous run
Contains(s, t) ==
    \E i \in 0..(Len(s) - Len(t)) : SubSeq(s, i + 1, i + Len(t)) = t

\* variant with a seeded fault: one leading occurrence is removed only
TrimStartMatchesOnce(s, c) ==
    IF s # << >> /\ s[1] = c THEN Tail(s) ELSE s

\* str::trim_start_matches with a one-character pattern: removes every
\* leading repetition of the pattern
RECURSIVE TrimStartMatches(_, _)
TrimStartMatches(s, c) ==
    IF s # << >> /\ s[1] = c THEN TrimStartMatches(Tail(s), c) ELSE s

----------------------------------------------------------------------------
(* semver::Version *)

\* an identifier of the pre-release or build part: numeric or alphanumeric
Numeric(n) == [ num |-> TRUE, n |-> n, s |-> << >> ]
AlphaNumeric(s) == [ num |-> FALSE, n |-> 0, s |-> s ]

AllDigits(s) == s # << >> /\ \A i \in 1..Len(s) : IsDigit(s[i])

\* a numeric field of the version core: digits, no leading zero
IsNumericField(s) == AllDigits(s) /\ (Len(s) > 1 => s[1] # "0")

IsIdentifier(s) == s # << >> /\ \A i \in 1..Len(s) : IsIdentChar(s[i])

ParseIdentifier(s) == IF AllDigits(s) THEN Numeric(NumOf(s)) ELSE AlphaNumeric(s)

ParseIdentifiers(ss) == [ i \in 1..Len(ss) |-> ParseIdentifier(ss[i]) ]

ParseFail == [ ok |-> FALSE, major |-> 0, minor |-> 0, patch |-> 0,
               pre |-> << >>, build |-> << >> ]

\* Version::parse: surrounding whitespace is dropped, then
\* major.minor.patch[-pre][+build], nothing else
VersionParse(text) ==
    LET s      == Trim(text)
        plus   == IndexOf(s, "+")
        head   == IF plus = 0 THEN s ELSE SubSeq(s, 1, plus - 1)
        btext  == IF plus = 0 THEN << >> ELSE SubSeq(s, plus + 1, Len(s))
        hyph   == IndexOf(head, "-")
        core   == IF hyph = 0 THEN head ELSE SubSeq(head, 1, hyph - 1)
        ptext  == IF hyph = 0 THEN << >> ELSE SubSeq(head, hyph + 1, Len(head))
        nums   == SplitOn(core, ".")
        pres   == IF hyph = 0 THEN << >> ELSE SplitOn(ptext, ".")
        builds == IF plus = 0 THEN << >> ELSE SplitOn(btext, ".")
    IN  IF /\ Len(nums) = 3
           /\ \A i \in 1..3 : IsNumericField(nums[i])
           /\ \A i \in 1..Len(pres) : IsIdentifier(pres[i])
           /\ \A i \in 1..Len(builds) : IsIdentifier(builds[i])
        THEN [ ok |-> TRUE, major |-> NumOf(nums[1]), minor |-> NumOf(nums[2]),
               patch |-> NumOf(nums[3]), pre |-> ParseIdentifiers(pres),
               build |-> ParseIdentifiers(builds) ]
        ELSE ParseFail

FormatIdentifier(id) == IF id.num THEN DigitsOf(id.n) ELSE id.s

FormatIdentifiers(ids) ==
    JoinWith([ i \in 1..Len(ids) |-> FormatIdentifier(ids[i]) ], ".")

\* Display for Version
VersionFormat(v) ==
    DigitsOf(v.major) \o << "." >> \o DigitsOf(v.minor) \o << "." >>
        \o DigitsOf(v.patch)
        \o (IF v.pre = << >> THEN << >> ELSE << "-" >> \o FormatIdentifiers(v.pre))
        \o (IF v.build = << >> THEN << >> ELSE << "+" >> \o FormatIdentifiers(v.build))

\* lexicographic order of two texts by character code
RECURSIVE TextLess(_, _)
TextLess(a, b) ==
    IF b = << >> THEN FALSE
    ELSE IF a = << >> THEN TRUE
    ELSE IF a[1] # b[1] THEN CharOrd(a[1]) < CharOrd(b[1])
    ELSE TextLess(Tail(a), Tail(b))

\* Ord for Identifier: numeric below alphanumeric
IdentifierLess(x, y) ==
    IF x.num /\ y.num THEN x.n < y.n
    ELSE IF x.num THEN TRUE
    ELSE IF y.num THEN FALSE
    ELSE TextLess(x.s, y.s)

RECURSIVE IdentifiersLess(_, _)
IdentifiersLess(p, q) ==
    IF q = << >> THEN FALSE
    ELSE IF p = << >> THEN TRUE
    ELSE IF p[1] # q[1] THEN IdentifierLess(p[1], q[1])
    ELSE IdentifiersLess(Tail(p), Tail(q))

\* variant with a seeded fault: a pre-release ranks with its release
VersionLessIgnoringPre(a, b) ==
    IF a.major # b.major THEN a.major < b.major
    ELSE IF a.minor # b.minor THEN a.minor < b.minor
    ELSE a.patch < b.patch

\* Ord for Version: major, minor, patch, then the pre-release part, where
\* no pre-release ranks above any pre-release; build metadata is ignored
VersionLess(a, b) ==
    IF a.major # b.major THEN a.major < b.major
    ELSE IF a.minor # b.minor THEN a.minor < b.minor
    ELSE IF a.patch # b.patch THEN a.patch < b.patch
    ELSE IF a.pre = << >> THEN FALSE
    ELSE IF b.pre = << >> THEN TRUE
    ELSE IdentifiersLess(a.pre, b.pre)

----------------------------------------------------------------------------
(* Paths and the filesystem *)

\* A path is its sequence of components; an absolute path starts with "/".
Root == << "/" >>
ProjDir == << "/", "proj" >>
PublicDir == ProjDir \o << "public" >>
WebModulesDir == PublicDir \o << "web_modules" >>
ImportMapFile == WebModulesDir \o << "import-map.json" >>
LinkPath == << "/", "lnk" >>

\* the working directory of the process
Cwd == ProjDir

IsAbsolute(p) == p # << >> /\ p[1] = "/"

\* Path::join: an absolute right-hand side replaces the left-hand side
PathJoin(a, b) == IF IsAbsolute(b) THEN b ELSE a \o b

Absolute(p) == IF IsAbsolute(p) THEN p ELSE Cwd \o p

\* Path::parent: none for the root and for the empty path; the parent of a
\* one-component relative path is the empty path
Parent(p) == SubSeq(p, 1, Len(p) - 1)

HasParent(p) == p # << >> /\ p # Root

NoPath == [ ok |-> FALSE, path |-> << >> ]

\* follows the components `rest` from the existing canonical path `cur`
RECURSIVE Walk(_, _, _)
Walk(f, cur, rest) ==
    IF rest = << >> THEN [ ok |-> TRUE, path |-> cur ]
    ELSE IF cur \notin f.dirs THEN NoPath
    ELSE IF Head(rest) = "." THEN Walk(f, cur, Tail(rest))
    ELSE IF Head(rest) = ".."
         THEN Walk(f, IF cur = Root THEN Root ELSE Parent(cur), Tail(rest))
    ELSE LET nxt == cur \o << Head(rest) >>
         IN  IF \E l \in f.links : l.at = nxt
             THEN Walk(f, (CHOOSE l \in f.links : l.at = nxt).to, Tail(rest))
             ELSE IF nxt \in f.dirs \cup f.files
             THEN Walk(f, nxt, Tail(rest))
             ELSE NoPath

\* Path::canonicalize: absolute, "." and ".." and symbolic links resolved;
\* fails when the path does not exist
Canonicalize(f, p) ==
    IF p = << >> THEN NoPath ELSE Walk(f, Root, Tail(Absolute(p)))

IsDir(f, p) == Canonicalize(f, p).ok /\ Canonicalize(f, p).path \in f.dirs

IsFile(f, p) == Canonicalize(f, p).ok /\ Canonicalize(f, p).path \in f.files

\* a path is in canonical form when canonicalizing it yields itself
IsCanonical(f, p) == Canonicalize(f, p).ok /\ Canonicalize(f, p).path = p

\* mkdir(2) of one directory
Mkdir(f, p) ==
    LET par == IF Len(p) > 1 THEN Canonicalize(f, Parent(p))
               ELSE Canonicalize(f, << "." >>)
    IN  IF Canonicalize(f, p).ok THEN [ ok |-> FALSE, err |-> "AlreadyExists", fs |-> f ]
        ELSE IF ~par.ok \/ par.path \notin f.dirs
        THEN [ ok |-> FALSE, err |-> "NotFound", fs |-> f ]
        ELSE IF ~f.writable
        THEN [ ok |-> FALSE, err |-> "PermissionDenied", fs |-> f ]
        ELSE [ ok |-> TRUE, err |-> "",
               fs |-> [ f EXCEPT !.dirs = @ \cup { par.path \o << p[Len(p)] >> } ] ]

\* std::fs::create_dir_all: the directory and every missing ancestor;
\* succeeds when the directory is already there
RECURSIVE CreateDirAll(_, _)
CreateDirAll(f, p) ==
    IF p = << >> THEN [ ok |-> TRUE, err |-> "", fs |-> f ]
    ELSE LET first == Mkdir(f, p)
         IN  IF first.ok THEN first
             ELSE IF first.err = "NotFound"
             THEN IF ~HasParent(p)
                  THEN [ ok |-> FALSE, err |-> "failed to create whole tree", fs |-> f ]
                  ELSE LET up == CreateDirAll(f, Parent(p))
                       IN  IF ~up.ok THEN up
                           ELSE LET again == Mkdir(up.fs, p)
                                IN  IF again.ok \/ IsDir(up.fs, p)
                                    THEN [ again EXCEPT !.ok = TRUE, !.err = "" ]
                                    ELSE again
             ELSE IF IsDir(f, p) THEN [ ok |-> TRUE, err |-> "", fs |-> f ]
             ELSE first

\* the contents an import-map.json can have in the model
WellFormedImportMap == << "{", "\"imports\"", ":", "{", "}", "}" >>
MalformedImportMap == << "{", "oops" >>
NotUtf8 == << "\\xff" >>

\* fs::read_to_string: the file's text
ReadToString(f, p) ==
    IF ~IsFile(f, p) THEN [ ok |-> FALSE, err |-> << "No such file or directory" >>, text |-> << >> ]
    ELSE IF f.data = NotUtf8
    THEN [ ok |-> FALSE, err |-> << "stream did not contain valid UTF-8" >>, text |-> << >> ]
    ELSE [ ok |-> TRUE, err |-> << >>, text |-> f.data ]

\* toast::breadbox::parse_import_map: JSON text to a mapping, or a failure
parse_import_map(text) ==
    IF text = WellFormedImportMap
    THEN [ ok |-> TRUE, err |-> << >>, map |-> << "imports" >> ]
    ELSE [ ok |-> FALSE, err |-> << "expected value" >>, map |-> << >> ]

\* the filesystems a run can start in: the project tree down to `depth`
\* levels below /proj, with or without a symbolic link /lnk -> /proj
TreeTo(depth) ==
    { Root, ProjDir }
        \cup (IF depth >= 1 THEN { PublicDir } ELSE { })
        \cup (IF depth >= 2 THEN { WebModulesDir } ELSE { })

FileSystems ==
    { [ dirs |-> TreeTo(d),
        files |-> IF d = 3 THEN { ImportMapFile } ELSE { },
        links |-> IF l THEN { [ at |-> LinkPath, to |-> ProjDir ] } ELSE { },
        data |-> c,
        writable |-> w ] :
        d \in 0..3, l \in BOOLEAN, w \in BOOLEAN,
        c \in { WellFormedImportMap, MalformedImportMap, NotUtf8 } }

StartFileSystems ==
    { f \in FileSystems : f.files = { } => f.data = WellFormedImportMap }

----------------------------------------------------------------------------
(* Command line (cli_args::Toast) *)

NoOpt == [ ok |-> FALSE, debug |-> FALSE, input_dir |-> << >>,
           has_output_dir |-> FALSE, output_dir |-> << >> ]

\* scans the arguments after the subcommand name
RECURSIVE ScanArgs(_, _, _)
ScanArgs(args, acc, seen_input) ==
    IF args = << >> THEN (IF seen_input THEN acc ELSE NoOpt)
    ELSE IF Head(args) = << "--debug" >>
    THEN ScanArgs(Tail(args), [ acc EXCEPT !.debug = TRUE ], seen_input)
    ELSE IF Head(args) = << "--output-dir" >>
    THEN IF Len(args) < 2 \/ acc.has_output_dir THEN NoOpt
         ELSE ScanArgs(Tail(Tail(args)),
                       [ acc EXCEPT !.has_output_dir = TRUE, !.output_dir = args[2] ],
                       seen_input)
    ELSE IF seen_input THEN NoOpt
    ELSE ScanArgs(Tail(args), [ acc EXCEPT !.input_dir = Head(args) ], TRUE)

\* Toast::from_args: the one directive, `incremental`, with an optional
\* debug flag, a required input directory and an optional output directory
FromArgs(argv) ==
    IF argv = << >> \/ Head(argv) # << "incremental" >> THEN NoOpt
    ELSE ScanArgs(Tail(argv), [ NoOpt EXCEPT !.ok = TRUE ], FALSE)

InputDirs == { ProjDir, << "." >>, LinkPath, << "/", "nope" >> }

OutputDirs == { PublicDir, << "out" >>, LinkPath \o << "public" >>,
                << "/", "proj", ".", "public" >> }

ArgVectors ==
    { << >>, << << "build" >> >>, << << "incremental" >> >>,
      << << "incremental" >>, ProjDir, << "--output-dir" >> >> }
    \cup { << << "incremental" >>, << "--debug" >>, ProjDir >> }
    \cup { << << "incremental" >>, i >> \o o :
             i \in InputDirs,
             o \in { << >> } \cup { << << "--output-dir" >>, x >> : x \in OutputDirs } }

----------------------------------------------------------------------------
(* The panic report *)

Endpoint == << "https://github.com/christopherBiscardi/toast/issues/new" >>

Placeholder == << "<", "non", " ", "string", " ", "panic", " ", "payload", ">" >>

\* env!("CARGO_PKG_VERSION")
VERSION == << "CARGO_PKG_VERSION" >>

\* application/x-www-form-urlencoded: a token of letters, digits, "*", "-",
\* "." and "_" is kept, a space becomes "+", any other character %XX
Escapes ==
    { << " ", "+" >>, << "\n", "%0A" >>, << "|", "%7C" >>, << "#", "%23" >>,
      << "<", "%3C" >>, << ">", "%3E" >>, << ":", "%3A" >>, << "/", "%2F" >>,
      << ",", "%2C" >>, << "+", "%2B" >>, << "%", "%25" >>, << "=", "%3D" >>,
      << "&", "%26" >>, << "?", "%3F" >> }

EncodeToken(t) ==
    IF \E e \in Escapes : e[1] = t THEN (CHOOSE e \in Escapes : e[1] = t)[2] ELSE t

DecodeToken(t) ==
    IF \E e \in Escapes : e[2] = t THEN (CHOOSE e \in Escapes : e[2] = t)[1] ELSE t

FormEncode(text) == [ i \in 1..Len(text) |-> EncodeToken(text[i]) ]

FormDecode(text) == [ i \in 1..Len(text) |-> DecodeToken(text[i]) ]

\* Display for Location: file:line:column
LocationFormat(loc) == loc.file \o << ":", loc.line, ":", loc.column >>

\* the body parameter of the report link
IssueBody(os_type, os_release, message, location) ==
    << "#", "#", " ", "Metadata", "\n",
       "|", "key", "|", "value", "|", "\n",
       "|", "--", "|", "--", "|", "\n",
       "|", "**version**", "|" >> \o VERSION \o << "|", "\n",
       "|", "**os_type**", "|" >> \o os_type \o << "|", "\n",
       "|", "**os_release**", "|" >> \o os_release \o << "|", "\n",
       "|", "**message**", "|" >> \o message \o << "|", "\n",
       "|", "**location**", "|" >> \o LocationFormat(location) \o << "|", "\n",
       "#", "#", " ", "More", " ", "info", "\n" >>

\* Url::parse_with_params followed by Display for Url
UrlWithParams(base, params) ==
    base \o << "?" >>
        \o JoinWith([ i \in 1..Len(params) |->
                        FormEncode(params[i][1]) \o << "=" >> \o FormEncode(params[i][2]) ],
                    "&")

\* the value of query parameter `name` of a rendered URL, decoded
QueryParam(url, name) ==
    LET q     == IndexOf(url, "?")
        pairs == IF q = 0 THEN << >> ELSE SplitOn(SubSeq(url, q + 1, Len(url)), "&")
        hit   == { i \in 1..Len(pairs) :
                     Len(pairs[i]) >= 2 /\ pairs[i][1] = name /\ pairs[i][2] = "=" }
    IN  IF hit = { } THEN << >>
        ELSE LET i == CHOOSE i \in hit : TRUE
             IN  FormDecode(SubSeq(pairs[i], 3, Len(pairs[i])))

Unavailable == << "unavailable" >>

\* what os_type() and os_release() answer when they succeed
OsType == << "Linux" >>
OsRelease == << "6.1.0" >>

Title == << "<", "autogenerated-issue", ">" >>

\* variant with a seeded fault: a failed link construction yields no text
custom_url_nofallback(location, message, env) ==
    IF env.url_ok
    THEN UrlWithParams(Endpoint,
            << << << "title" >>, Title >>,
               << << "body" >>,
                  IssueBody(IF env.os_type_ok THEN OsType ELSE Unavailable,
                            IF env.os_release_ok THEN OsRelease ELSE Unavailable,
                            message, location) >> >>)
    ELSE << >>

\* custom_url; env holds what the host answers: whether the URL library
\* accepts the link, and whether os_type() and os_release() succeed
custom_url(location, message, env) ==
    IF env.url_ok
    THEN UrlWithParams(Endpoint,
            << << << "title" >>, Title >>,
               << << "body" >>,
                  IssueBody(IF env.os_type_ok THEN OsType ELSE Unavailable,
                            IF env.os_release_ok THEN OsRelease ELSE Unavailable,
                            message, location) >> >>)
    ELSE Endpoint

\* Any::downcast_ref::<T> on the payload
DowncastRef(payload, type) ==
    [ some |-> payload.kind = type,
      text |-> IF payload.kind = type THEN payload.text ELSE << >> ]

\* variant with a seeded fault: the placeholder replaces a borrowed text
PanicPayloadTextOwnedOnly(payload) ==
    LET owned == DowncastRef(payload, "String")
    IN  IF owned.some
        THEN [ message |-> owned.text, attempts |-> << "String" >> ]
        ELSE [ message |-> Placeholder, attempts |-> << "String" >> ]

\* display, the message: owned text, else borrowed text, else the
\* placeholder; attempts lists the downcasts made, in order
PanicPayloadText(payload) ==
    LET owned == DowncastRef(payload, "String")
    IN  IF owned.some
        THEN [ message |-> owned.text, attempts |-> << "String" >> ]
        ELSE LET borrowed == DowncastRef(payload, "&str")
             IN  IF borrowed.some
                 THEN [ message |-> borrowed.text, attempts |-> << "String", "&str" >> ]
                 ELSE [ message |-> Placeholder, attempts |-> << "String", "&str" >> ]

Banner == << "The application panicked (crashed)." >>

\* the texts display writes to the formatter, one per write! call
DisplayWrites(pi, env) ==
    LET payload == PanicPayloadText(pi.payload).message
    IN  << Banner \o << "\n" >>,
           << "Message:  " >>,
           payload \o << "\n" >> ,
           << "Location: " >> >>
        \o (IF pi.has_location
            THEN << pi.location.file,
                    << ":" >>,
                    << pi.location.line >>,
                    << "\n", "\n", "Consider reporting the bug using this URL: " >>
                        \o custom_url(pi.location, payload, env) >>
            ELSE << << "<", "unknown", ">" >> >>)

\* MyPanicMessage::display: fail_at is the write on which the formatter
\* fails, 0 when it never fails; a failed write ends the render with Err
display(pi, env, fail_at) ==
    LET writes == DisplayWrites(pi, env)
        failed == fail_at \in 1..Len(writes)
        done   == IF failed THEN fail_at - 1 ELSE Len(writes)
        text   == PanicPayloadText(pi.payload)
    IN  [ rendered |-> TRUE,
          ok       |-> ~failed,
          out      |-> Concat(SubSeq(writes, 1, done)),
          message  |-> text.message,
          attempts |-> text.attempts,
          url      |-> IF pi.has_location /\ done >= Len(writes) - 1
                       THEN custom_url(pi.location, text.message, env)
                       ELSE << >>,
          url_ok   |-> env.url_ok,
          write_failed |-> failed ]

NoReport ==
    [ rendered |-> FALSE, ok |-> FALSE, out |-> << >>, message |-> << >>,
      attempts |-> << >>, url |-> << >>, url_ok |-> FALSE, write_failed |-> FALSE ]

Location(file, line, column) == [ file |-> file, line |-> line, column |-> column ]

NoLocation == Location(<< >>, "", "")

PanicInfo(kind, text, has_location, location) ==
    [ raised |-> TRUE, payload |-> [ kind |-> kind, text |-> text ],
      has_location |-> has_location, location |-> location ]

NoPanic ==
    [ raised |-> FALSE, payload |-> [ kind |-> "other", text |-> << >> ],
      has_location |-> FALSE, location |-> NoLocation ]

MainRs == << "src", "/", "main.rs" >>

\* the hosts a report can be rendered on
HostEnvs ==
    [ url_ok : BOOLEAN, os_type_ok : BOOLEAN, os_release_ok : BOOLEAN ]

----------------------------------------------------------------------------
(* check_node_version; the grave accents of the messages are written ' *)

Version(major, minor, patch, pre, build) ==
    [ ok |-> TRUE, major |-> major, minor |-> minor, patch |-> patch,
      pre |-> pre, build |-> build ]

minimum_required_node_major_version == Version(14, 0, 0, << >>, << >>)

\* what running 'node -v' can give: the command cannot be run, its output
\* is not UTF-8, or some text
NodeRun(spawned, utf8, stdout) ==
    [ spawned |-> spawned, utf8 |-> utf8, stdout |-> stdout ]

GateResult(ok, kind, chain, raw, trimmed, parsed) ==
    [ ok |-> ok, kind |-> kind, chain |-> chain, version_string |-> raw,
      version_string_trimmed |-> trimmed, current_node_version_result |-> parsed ]

check_node_version(run) ==
    IF ~run.spawned
    THEN GateResult(FALSE, "ExecutionFailure",
            << << << "Failed to execute 'node -v' Command and collect output" >> >>,
               << << "No such file or directory" >> >> >>,
            << >>, << >>, ParseFail)
    ELSE IF ~run.utf8
    THEN GateResult(FALSE, "ExecutionFailure",
            << << << "Failed to create utf8 string from node -v Command output" >> >>,
               << << "invalid utf-8 sequence" >> >> >>,
            << >>, << >>, ParseFail)
    ELSE LET version_string_l == run.stdout
             trimmed == TrimStartMatches(version_string_l, "v")
             parsed  == VersionParse(trimmed)
         IN  IF parsed.ok
             THEN IF VersionLess(parsed, minimum_required_node_major_version)
                  THEN GateResult(FALSE, "IncompatibleVersion",
                          << << << "node version " >>, VersionFormat(parsed),
                                << " doesn't meet the minimum required version " >>,
                                VersionFormat(minimum_required_node_major_version) >> >>,
                          version_string_l, trimmed, parsed)
                  ELSE GateResult(TRUE, "", << >>, version_string_l, trimmed, parsed)
             ELSE GateResult(FALSE, "ParseFailure",
                     << << << "Couldn't parse node version from trimmed version '" >>,
                           trimmed, << "', original string is '" >>,
                           version_string_l, << "'" >> >> >>,
                     version_string_l, trimmed, parsed)

\* the versions, and the outputs of 'node -v', the model tries
RC(n) == << AlphaNumeric(<< "r", "c" >>), Numeric(n) >>

PreReleases == { << >>, RC(1), RC(2), << Numeric(1) >> }

Builds == { << >>, << AlphaNumeric(<< "b" >>) >> }

Versions ==
    { Version(ma, mi, pa, pre, b) :
        ma \in 13..MaxMajor, mi \in 0..MaxMinor, pa \in 0..MaxPatch,
        pre \in PreReleases, b \in Builds }

RECURSIVE Vs(_)
Vs(k) == IF k = 0 THEN << >> ELSE << "v" >> \o Vs(k - 1)

Junk == { << >>, << "a", "b", "c" >>, << "1", "4", ".", "0" >>,
          << "1", "4", ".", "0", ".", "0", "x" >>,
          << "0", "1", "4", ".", "0", ".", "0" >> }

NodeOutputs ==
    { Vs(k) \o body \o nl :
        k \in 0..MaxV,
        body \in { VersionFormat(v) : v \in Versions } \cup Junk,
        nl \in { << >>, << "\n" >> } }

NodeRuns ==
    { NodeRun(FALSE, FALSE, << >>), NodeRun(TRUE, FALSE, << >>) }
        \cup { NodeRun(TRUE, TRUE, t) : t \in NodeOutputs }

----------------------------------------------------------------------------
(* get_npm_bin_dir *)

NpmRun(spawned, exit_ok, utf8, stdout) ==
    [ spawned |-> spawned, exit_ok |-> exit_ok, utf8 |-> utf8, stdout |-> stdout ]

NpmBinText == << "/", "proj", "/", "node_modules", "/", ".bin", "\n" >>

\* npm bin cannot be run; prints bytes that are not UTF-8; prints the
\* directory and exits 0; exits non-zero having printed nothing
NpmRuns ==
    { NpmRun(FALSE, FALSE, FALSE, << >>), NpmRun(TRUE, TRUE, FALSE, << >>),
      NpmRun(TRUE, TRUE, TRUE, NpmBinText), NpmRun(TRUE, FALSE, TRUE, << >>) }

get_npm_bin_dir(run) ==
    IF ~run.spawned
    THEN [ ok |-> FALSE, value |-> << >>,
           panic |-> PanicInfo("String",
                        << "failed", " ", "to", " ", "execute", " ", "process", ":", " ",
                           "NotFound" >>,
                        TRUE, Location(MainRs, "100", "10")) ]
    ELSE IF ~run.utf8
    THEN [ ok |-> FALSE, value |-> << >>,
           panic |-> PanicInfo("&str",
                        << "npm", " ", "bin", " ", "location", " ", "could", " ", "not",
                           " ", "be", " ", "found", ",", " ", "exiting" >>,
                        TRUE, Location(MainRs, "105", "13")) ]
    ELSE [ ok |-> TRUE, value |-> run.stdout, panic |-> NoPanic ]

----------------------------------------------------------------------------
(* main *)

\* the statements of main in the order the variant with a seeded fault
\* runs them: npm bin discovery ahead of the version gate
OrderNpmFirst ==
    << "tracing", "hook", "npm", "gate", "args", "read", "parse", "outdir",
       "engine", "done" >>

\* ... the version gate ahead of the panic hook
OrderGateFirst ==
    << "tracing", "gate", "hook", "npm", "args", "read", "parse", "outdir",
       "engine", "done" >>

\* ... the output directory ahead of the import map
OrderOutdirFirst ==
    << "tracing", "hook", "gate", "npm", "args", "outdir", "read", "parse",
       "engine", "done" >>

\* the statements of main, in source order
MainOrder ==
    << "tracing", "hook", "gate", "npm", "args", "read", "parse", "outdir",
       "engine", "done" >>

StepAfterNpmFirst(p) == OrderNpmFirst[IndexOf(OrderNpmFirst, p) + 1]

StepAfterGateFirst(p) == OrderGateFirst[IndexOf(OrderGateFirst, p) + 1]

StepAfterOutdirFirst(p) == OrderOutdirFirst[IndexOf(OrderOutdirFirst, p) + 1]

\* the statement main runs once statement p has succeeded
StepAfter(p) == MainOrder[IndexOf(MainOrder, p) + 1]

Running == [ status |-> "running", stage |-> "", kind |-> "", chain |-> << >> ]

Failure(stage, kind, chain) ==
    [ status |-> "error", stage |-> stage, kind |-> kind, chain |-> chain ]

NoConfig ==
    [ set |-> FALSE, debug |-> FALSE, project_root_dir |-> << >>,
      output_dir |-> << >>, npm_bin_dir |-> << >>, import_map |-> << >> ]

IncrementalOpts(debug, project_root_dir, output_dir, bin_dir, map) ==
    [ set |-> TRUE, debug |-> debug, project_root_dir |-> project_root_dir,
      output_dir |-> output_dir, npm_bin_dir |-> bin_dir, import_map |-> map ]

import_map_filepath(o) ==
    PathJoin(o.input_dir, << "public", "web_modules", "import-map.json" >>)

ReadFailureMessage(path) ==
    << << "Failed to read 'import-map.json' from '" >>, path, << "'" >> >>

\* variant with a seeded fault: the message names the path only
ParseFailureMessageNoContent(text, path) ==
    << << "Failed to parse import map at '" >>, path, << "'" >> >>

ParseFailureMessage(text, path) ==
    << << "Failed to parse import map from content '" >>, text, << "' at '" >>,
       path, << "'" >> >>

NoOutputDir(f) ==
    [ ok |-> FALSE, stage |-> "", chain |-> << >>, fs |-> f, path |-> << >>,
      ops |-> << >> ]

\* variant with a seeded fault: the derived directory is not canonicalized
output_dir_uncanonicalized(f, o) ==
    IF o.has_output_dir
    THEN [ NoOutputDir(f) EXCEPT !.ok = TRUE, !.path = o.output_dir ]
    ELSE LET full_output_dir == PathJoin(o.input_dir, << "public" >>)
             made == CreateDirAll(f, full_output_dir)
         IN  IF ~made.ok
             THEN [ NoOutputDir(made.fs) EXCEPT
                      !.stage = "create_dir_all", !.ops = << "create_dir_all" >> ]
             ELSE [ NoOutputDir(made.fs) EXCEPT
                      !.ok = TRUE, !.path = full_output_dir,
                      !.ops = << "create_dir_all" >> ]

\* the output_dir field of IncrementalOpts: the directory given on the
\* command line as it is, else <input_dir>/public created and canonicalized
output_dir(f, o) ==
    IF o.has_output_dir
    THEN [ NoOutputDir(f) EXCEPT !.ok = TRUE, !.path = o.output_dir ]
    ELSE LET full_output_dir == PathJoin(o.input_dir, << "public" >>)
             made == CreateDirAll(f, full_output_dir)
         IN  IF ~made.ok
             THEN [ NoOutputDir(made.fs) EXCEPT
                      !.stage = "create_dir_all",
                      !.chain = << << << "Failed create directories for path '" >>,
                                      full_output_dir, << "'" >> >>,
                                   << << made.err >> >> >>,
                      !.ops = << "create_dir_all" >> ]
             ELSE LET canon == Canonicalize(made.fs, full_output_dir)
                  IN  IF ~canon.ok
                      THEN [ NoOutputDir(made.fs) EXCEPT
                               !.stage = "canonicalize",
                               !.chain = << << << "Failed canonicalize the output directory path" >> >>,
                                            << << "No such file or directory" >> >> >>,
                               !.ops = << "create_dir_all", "canonicalize" >> ]
                      ELSE [ NoOutputDir(made.fs) EXCEPT
                               !.ok = TRUE, !.path = canon.path,
                               !.ops = << "create_dir_all", "canonicalize" >> ]

\* what incremental_compile can do: succeed, fail, or panic
EngineResults ==
    { [ kind |-> "ok", panic |-> NoPanic ], [ kind |-> "error", panic |-> NoPanic ] }
        \cup { [ kind |-> "panic",
                 panic |-> PanicInfo(k, IF k = "other" THEN << >> ELSE << "boom" >>,
                                     l, IF l THEN Location(<< "foo.rs" >>, "10", "5")
                                             ELSE NoLocation) ] :
                 k \in { "String", "&str", "other" }, l \in BOOLEAN }

----------------------------------------------------------------------------
(* The state machine *)

Init ==
    /\ feature \in BOOLEAN
    /\ fs \in StartFileSystems
    /\ fs0 = fs
    /\ pc = IF feature THEN "tracing" ELSE StepAfter("tracing")
    /\ log = << >>
    /\ hooks = 0
    /\ gate = "pending"
    /\ version_string = << >>
    /\ version_string_trimmed = << >>
    /\ current_node_version_result = ParseFail
    /\ npm_bin_dir = << >>
    /\ npm_exit_ok = FALSE
    /\ opt = NoOpt
    /\ contents = << >>
    /\ import_map = << >>
    /\ public_at_read = FALSE
    /\ config = NoConfig
    /\ panic = NoPanic
    /\ report = NoReport
    /\ outcome = Running

\* install_tracing (capture-spantrace builds only): the filter comes from
\* the environment, or is "info" when the environment gives none
InstallTracing(env_ok) ==
    /\ pc = "tracing"
    /\ log' = log \o (IF env_ok THEN << "install_tracing" >>
                      ELSE << "install_tracing", "EnvFilter::try_new" >>)
    /\ pc' = StepAfter("tracing")
    /\ UNCHANGED << feature, fs, fs0, hooks, gate, version_string,
                    version_string_trimmed, current_node_version_result,
                    npm_bin_dir, npm_exit_ok, opt, contents, import_map,
                    public_at_read, config, panic, report, outcome >>

\* HookBuilder::default().panic_message(MyPanicMessage).install()?
InstallHook ==
    /\ pc = "hook"
    /\ log' = Append(log, "HookBuilder::install")
    /\ IF hooks = 0
       THEN /\ hooks' = hooks + 1
            /\ pc' = StepAfter("hook")
            /\ outcome' = outcome
       ELSE /\ hooks' = hooks
            /\ pc' = "done"
            /\ outcome' = Failure("hook", "InstallError", << >>)
    /\ UNCHANGED << feature, fs, fs0, gate, version_string,
                    version_string_trimmed, current_node_version_result,
                    npm_bin_dir, npm_exit_ok, opt, contents, import_map,
                    public_at_read, config, panic, report >>

\* check_node_version()?
CheckNodeVersion(run) ==
    /\ pc = "gate"
    /\ LET r == check_node_version(run)
       IN  /\ version_string' = r.version_string
           /\ version_string_trimmed' = r.version_string_trimmed
           /\ current_node_version_result' = r.current_node_version_result
           /\ gate' = IF r.ok THEN "passed" ELSE "failed"
           /\ pc' = IF r.ok THEN StepAfter("gate") ELSE "done"
           /\ outcome' = IF r.ok THEN outcome ELSE Failure("gate", r.kind, r.chain)
    /\ log' = Append(log, "node -v")
    /\ UNCHANGED << feature, fs, fs0, hooks, npm_bin_dir, npm_exit_ok, opt,
                    contents, import_map, public_at_read, config, panic, report >>

\* let npm_bin_dir = get_npm_bin_dir(); the locals of check_node_version
\* are gone by now
GetNpmBinDir(run) ==
    /\ pc = "npm"
    /\ LET r == get_npm_bin_dir(run)
       IN  /\ npm_bin_dir' = r.value
           /\ npm_exit_ok' = (r.ok /\ run.exit_ok)
           /\ panic' = r.panic
           /\ pc' = IF r.ok THEN StepAfter("npm") ELSE "panicking"
    /\ log' = Append(log, "npm bin")
    /\ version_string' = << >>
    /\ version_string_trimmed' = << >>
    /\ current_node_version_result' = ParseFail
    /\ UNCHANGED << feature, fs, fs0, hooks, gate, opt, contents, import_map,
                    public_at_read, config, report, outcome >>

\* let opt = Toast::from_args(); a command line that does not parse ends
\* the process with a usage message
ParseArgs(argv) ==
    /\ pc = "args"
    /\ LET o == FromArgs(argv)
       IN  /\ opt' = o
           /\ pc' = IF o.ok THEN StepAfter("args") ELSE "done"
           /\ outcome' = IF o.ok THEN outcome
                         ELSE [ Running EXCEPT !.status = "exit", !.stage = "args" ]
    /\ log' = Append(log, "from_args")
    /\ UNCHANGED << feature, fs, fs0, hooks, gate, version_string,
                    version_string_trimmed, current_node_version_result,
                    npm_bin_dir, npm_exit_ok, contents, import_map,
                    public_at_read, config, panic, report >>

\* fs::read_to_string(&import_map_filepath).wrap_err_with(..)?
ReadImportMap ==
    /\ pc = "read"
    /\ LET path == import_map_filepath(opt)
           r    == ReadToString(fs, path)
       IN  /\ contents' = r.text
           /\ pc' = IF r.ok THEN StepAfter("read") ELSE "done"
           /\ outcome' = IF r.ok THEN outcome
                         ELSE Failure("read", "ReadFailure",
                                      << ReadFailureMessage(path), << r.err >> >>)
    /\ public_at_read' = IsDir(fs, PathJoin(opt.input_dir, << "public" >>))
    /\ log' = Append(log, "read_to_string")
    /\ UNCHANGED << feature, fs, fs0, hooks, gate, version_string,
                    version_string_trimmed, current_node_version_result,
                    npm_bin_dir, npm_exit_ok, opt, import_map, config, panic,
                    report >>

\* parse_import_map(&contents).wrap_err_with(..)?
ParseImportMap ==
    /\ pc = "parse"
    /\ LET path == import_map_filepath(opt)
           r    == parse_import_map(contents)
       IN  /\ import_map' = r.map
           /\ pc' = IF r.ok THEN StepAfter("parse") ELSE "done"
           /\ outcome' = IF r.ok THEN outcome
                         ELSE Failure("parse", "ParseFailure",
                                      << ParseFailureMessage(contents, path),
                                         << r.err >> >>)
    /\ log' = Append(log, "parse_import_map")
    /\ UNCHANGED << feature, fs, fs0, hooks, gate, version_string,
                    version_string_trimmed, current_node_version_result,
                    npm_bin_dir, npm_exit_ok, opt, contents, public_at_read,
                    config, panic, report >>

\* the IncrementalOpts literal: its output_dir field is where main creates
\* a directory
AssembleOpts ==
    /\ pc = "outdir"
    /\ LET r == output_dir(fs, opt)
       IN  /\ fs' = r.fs
           /\ log' = log \o r.ops
           /\ pc' = IF r.ok THEN StepAfter("outdir") ELSE "done"
           /\ outcome' = IF r.ok THEN outcome ELSE Failure(r.stage, "", r.chain)
           /\ config' = IF r.ok
                        THEN IncrementalOpts(opt.debug, opt.input_dir, r.path,
                                             npm_bin_dir, import_map)
                        ELSE config
    /\ UNCHANGED << feature, fs0, hooks, gate, version_string,
                    version_string_trimmed, current_node_version_result,
                    npm_bin_dir, npm_exit_ok, opt, contents, import_map,
                    public_at_read, panic, report >>

\* task::block_on(incremental_compile(..)): its result is main's result
IncrementalCompile(result) ==
    /\ pc = "engine"
    /\ log' = Append(log, "incremental_compile")
    /\ panic' = result.panic
    /\ pc' = IF result.kind = "panic" THEN "panicking" ELSE StepAfter("engine")
    /\ outcome' = IF result.kind = "ok" THEN [ Running EXCEPT !.status = "ok" ]
                  ELSE IF result.kind = "error"
                  THEN Failure("engine", "", << << << "incremental_compile" >> >> >>)
                  ELSE outcome
    /\ UNCHANGED << feature, fs, fs0, hooks, gate, version_string,
                    version_string_trimmed, current_node_version_result,
                    npm_bin_dir, npm_exit_ok, opt, contents, import_map,
                    public_at_read, config, report >>

\* the panic hook runs: MyPanicMessage::display renders the report when the
\* hook has been installed, the default hook prints otherwise
Display(env, fail_at) ==
    /\ pc = "panicking"
    /\ report' = IF hooks > 0 THEN display(panic, env, fail_at) ELSE NoReport
    /\ log' = Append(log, "display")
    /\ pc' = "done"
    /\ outcome' = [ Running EXCEPT !.status = "panic" ]
    /\ UNCHANGED << feature, fs, fs0, hooks, gate, version_string,
                    version_string_trimmed, current_node_version_result,
                    npm_bin_dir, npm_exit_ok, opt, contents, import_map,
                    public_at_read, config, panic >>

\* the runs of node -v and the hosts tried when the whole of main runs
MainNodeRuns ==
    { NodeRun(FALSE, FALSE, << >>), NodeRun(TRUE, FALSE, << >>),
      NodeRun(TRUE, TRUE, << "v", "1", "3", ".", "1", ".", "1", "\n" >>),
      NodeRun(TRUE, TRUE, << "v", "1", "4", ".", "0", ".", "0", "\n" >>),
      NodeRun(TRUE, TRUE, << "v", "a", "b", "c" >>) }

MainHostEnvs == { e \in HostEnvs : e.os_type_ok /\ e.os_release_ok }

Next ==
    \/ \E env_ok \in BOOLEAN : InstallTracing(env_ok)
    \/ InstallHook
    \/ \E run \in MainNodeRuns : CheckNodeVersion(run)
    \/ \E run \in NpmRuns : GetNpmBinDir(run)
    \/ \E argv \in ArgVectors : ParseArgs(argv)
    \/ ReadImportMap
    \/ ParseImportMap
    \/ AssembleOpts
    \/ \E result \in EngineResults : IncrementalCompile(result)
    \/ \E env \in MainHostEnvs : Display(env, 0)

Spec == Init /\ [][Next]_vars

----------------------------------------------------------------------------
(* The version gate alone, on every output of node -v the model tries *)

GateInit ==
    /\ Init
    /\ feature = FALSE
    /\ fs = [ dirs |-> TreeTo(0), files |-> { }, links |-> { },
              data |-> WellFormedImportMap, writable |-> TRUE ]

GateNext ==
    \/ InstallHook
    \/ \E run \in NodeRuns : CheckNodeVersion(run)

GateSpec == GateInit /\ [][GateNext]_vars

----------------------------------------------------------------------------
(* The panic report alone, on every fault and host the model tries *)

PanicTexts ==
    { << "boom" >>, << "a", " ", "b", "|", "c" >>,
      get_npm_bin_dir(NpmRun(FALSE, FALSE, FALSE, << >>)).panic.payload.text,
      get_npm_bin_dir(NpmRun(TRUE, TRUE, FALSE, << >>)).panic.payload.text }

PanicInfos ==
    { PanicInfo(k, t, l, IF l THEN Location(f, "10", "5") ELSE NoLocation) :
        k \in { "String", "&str" }, t \in PanicTexts, l \in BOOLEAN,
        f \in { << "foo.rs" >>, MainRs } }
    \cup { PanicInfo("other", << >>, l,
                     IF l THEN Location(f, "10", "5") ELSE NoLocation) :
             l \in BOOLEAN, f \in { << "foo.rs" >>, MainRs } }

\* a fault raised below main, the hook being installed
ReportInit ==
    /\ feature = FALSE
    /\ fs = [ dirs |-> TreeTo(0), files |-> { }, links |-> { },
              data |-> WellFormedImportMap, writable |-> TRUE ]
    /\ fs0 = fs
    /\ pc = "panicking"
    /\ log = << "HookBuilder::install", "node -v", "npm bin" >>
    /\ hooks = 1
    /\ gate = "passed"
    /\ version_string = << >>
    /\ version_string_trimmed = << >>
    /\ current_node_version_result = ParseFail
    /\ npm_bin_dir = << >>
    /\ npm_exit_ok = FALSE
    /\ opt = NoOpt
    /\ contents = << >>
    /\ import_map = << >>
    /\ public_at_read = FALSE
    /\ config = NoConfig
    /\ panic \in PanicInfos
    /\ report = NoReport
    /\ outcome = Running

ReportNext ==
    \E env \in HostEnvs :
        \E fail_at \in 0..Len(DisplayWrites(panic, env)) : Display(env, fail_at)

ReportSpec == ReportInit /\ [][ReportNext]_vars

----------------------------------------------------------------------------
(* Properties *)

InLog(op) == \E i \in 1..Len(log) : log[i] = op

\* op was performed before position i of the log
Before(op, i) == \E j \in 1..(i - 1) : log[j] = op

\* part is one of the texts message is put together from
HasPart(message, part) == \E i \in 1..Len(message) : message[i] = part

\* v >= 14.0.0 in semantic-version precedence, spelled out
AtLeast14(v) ==
    \/ v.major > 14
    \/ v.major = 14 /\ (v.minor > 0 \/ v.patch > 0 \/ v.pre = << >>)

V14rc1 == << "v", "1", "4", ".", "0", ".", "0", "-", "r", "c", ".", "1" >>

VV14 == << "v", "v", "1", "4", ".", "0", ".", "0" >>

\* C1: for every "v"-prefixed output of node -v that parses as a semantic
\* version, check_node_version succeeds iff the version is >= 14.0.0 in
\* semantic-version precedence; a smaller one fails with an error naming
\* the found and the required version; "v14.0.0-rc.1" fails.
C1_GatePassesIffAtLeast14 ==
    (/\ gate # "pending"
     /\ version_string # << >>
     /\ version_string[1] = "v"
     /\ current_node_version_result.ok)
    => /\ (gate = "passed") <=> AtLeast14(current_node_version_result)
       /\ \A u \in Versions :
            Trim(version_string) = << "v" >> \o VersionFormat(u)
            => /\ (gate = "passed") <=> AtLeast14(u)
               /\ gate = "failed"
                  => /\ outcome.kind = "IncompatibleVersion"
                     /\ HasPart(outcome.chain[1], VersionFormat(u))
                     /\ HasPart(outcome.chain[1],
                                << "1", "4", ".", "0", ".", "0" >>)
       /\ gate = "failed"
          => /\ pc = "done"
             /\ outcome.status = "error"
             /\ outcome.kind = "IncompatibleVersion"
       /\ version_string = V14rc1 => gate = "failed"

C1_Witness ==
    /\ gate = "failed"
    /\ version_string = V14rc1
    /\ outcome.kind = "IncompatibleVersion"

\* C2 as stated: the text handed to the parser is the output of node -v with
\* at most its first character removed (removed only when it is "v"), so
\* "vv14.0.0" is not accepted.
C2_StripsExactlyOneV ==
    gate # "pending"
    => /\ version_string_trimmed =
            (IF version_string # << >> /\ version_string[1] = "v"
             THEN Tail(version_string) ELSE version_string)
       /\ version_string = VV14 => gate = "failed"

\* C2 as amended: the text handed to the parser is the output of node -v
\* without its whole run of leading "v" characters, so it never begins with
\* "v", and "vv14.0.0" is parsed, and accepted, as version 14.0.0.
C2_StripsEveryLeadingV ==
    gate # "pending"
    => /\ \E k \in 0..Len(version_string) :
            version_string = Vs(k) \o version_string_trimmed
       /\ version_string_trimmed = << >> \/ version_string_trimmed[1] # "v"
       /\ version_string = VV14
          => /\ gate = "passed"
             /\ current_node_version_result = Version(14, 0, 0, << >>, << >>)

C2_Witness ==
    /\ gate = "passed"
    /\ version_string = VV14
    /\ version_string_trimmed = << "1", "4", ".", "0", ".", "0" >>

\* what main does after the version gate
LaterSteps ==
    { "npm bin", "from_args", "read_to_string", "parse_import_map",
      "create_dir_all", "canonicalize", "incremental_compile" }

\* C3: package-manager discovery, argument parsing, the import-map read,
\* output-directory creation and the engine each happen only after
\* check_node_version has returned success; when the gate fails the run ends
\* with that failure and none of them is performed.
C3_GateBeforeCompilation ==
    /\ \A i \in 1..Len(log) :
         log[i] \in LaterSteps => gate = "passed" /\ Before("node -v", i)
    /\ gate = "failed"
       => /\ pc = "done"
          /\ outcome.status = "error"
          /\ outcome.stage = "gate"
          /\ \A i \in 1..Len(log) : log[i] \notin LaterSteps

C3_Witness ==
    /\ InLog("incremental_compile")
    /\ InLog("create_dir_all")
    /\ gate = "passed"

TracingSteps == { "install_tracing", "EnvFilter::try_new" }

\* the operations of main that can fail or fault
Fallible == TracingSteps \cup { "node -v" } \cup LaterSteps

C5_OutputDirAlwaysCanonical ==
    InLog("incremental_compile")
    => /\ IsAbsolute(config.output_dir)
       /\ IsDir(fs, config.output_dir)
       /\ IsCanonical(fs, config.output_dir)

\* C5 as amended: whenever the engine is invoked, an output_dir derived as
\* <input_dir>/public is an absolute, existing, canonicalized path; one given
\* on the command line is handed over as given.
C5_DerivedOutputDirCanonical ==
    InLog("incremental_compile")
    => /\ config.set
       /\ IF opt.has_output_dir
          THEN config.output_dir = opt.output_dir
          ELSE /\ IsAbsolute(config.output_dir)
               /\ IsDir(fs, config.output_dir)
               /\ IsCanonical(fs, config.output_dir)
               /\ config.output_dir
                    = Canonicalize(fs, PathJoin(opt.input_dir, << "public" >>)).path

C5_Witness ==
    /\ InLog("incremental_compile")
    /\ ~opt.has_output_dir
    /\ opt.input_dir = << "." >>
    /\ config.output_dir = PublicDir

\* C6: when npm bin cannot be run, fails, or prints what is not text, nothing
\* of main runs after it: the engine never gets a binary directory that did
\* not come from a successful discovery.
C6_DiscoveryFailureAborts ==
    \A i \in 1..Len(log) :
        log[i] \in LaterSteps \ { "npm bin" } => npm_exit_ok

\* C7: when import-map.json is read and the parser rejects its content, the
\* run ends with a failure whose cause is the parser's error and whose
\* message includes the content and the path; the engine is not invoked.
C7_ParseFailureKeepsCauseContentPath ==
    /\ (InLog("parse_import_map") /\ ~parse_import_map(contents).ok)
       => outcome.stage = "parse"
    /\ outcome.stage = "parse"
       => /\ pc = "done"
          /\ outcome.status = "error"
          /\ Len(outcome.chain) = 2
          /\ HasPart(outcome.chain[1], contents)
          /\ HasPart(outcome.chain[1], import_map_filepath(opt))
          /\ outcome.chain[2] = << parse_import_map(contents).err >>
          /\ contents = fs.data
          /\ ~InLog("incremental_compile")

C7_Witness ==
    /\ outcome.stage = "parse"
    /\ contents = MalformedImportMap
    /\ opt.input_dir = LinkPath

\* the last Len(t) characters of s are t
EndsWith(s, t) ==
    Len(s) >= Len(t) /\ SubSeq(s, Len(s) - Len(t) + 1, Len(s)) = t

\* C8: with a known location and a failed link construction, the link is the
\* bare endpoint and the render still succeeds with banner, message and
\* location; display returns an error only when a write to the formatter
\* failed.
C8_LinkFailureFallsBack ==
    (report.rendered /\ panic.has_location /\ ~report.url_ok)
    => /\ ~report.ok => report.write_failed
       /\ ~report.write_failed
          => /\ report.ok
             /\ report.url = Endpoint
             /\ EndsWith(report.out, Endpoint)
             /\ Contains(report.out, Banner)
             /\ Contains(report.out, << "Message:  " >> \o report.message)
             /\ Contains(report.out,
                         << "Location: " >> \o panic.location.file
                             \o << ":", panic.location.line >>)

C8_Witness ==
    /\ report.rendered
    /\ panic.has_location
    /\ ~report.url_ok
    /\ report.ok
    /\ report.url = Endpoint

\* C9: the rendered message is the payload's text when it is an owned
\* string, else its text when it is a borrowed string, else the placeholder;
\* the borrowed attempt follows a failed owned attempt and the placeholder
\* follows both; the same message is in the body of the report link.
C9_MessageOrderedFallback ==
    report.rendered
    => /\ report.message =
            (IF panic.payload.kind = "String" THEN panic.payload.text
             ELSE IF panic.payload.kind = "&str" THEN panic.payload.text
             ELSE Placeholder)
       /\ report.attempts =
            (IF panic.payload.kind = "String" THEN << "String" >>
             ELSE << "String", "&str" >>)
       /\ report.ok => Contains(report.out, << "Message:  " >> \o report.message)
       /\ (report.ok /\ panic.has_location /\ report.url_ok)
          => /\ EndsWith(report.out, report.url)
             /\ Contains(QueryParam(report.url, "body"),
                         << "|", "**message**", "|" >> \o report.message
                             \o << "|", "\n" >>)

C9_Witness ==
    /\ report.rendered
    /\ report.ok
    /\ panic.payload.kind = "&str"
    /\ panic.has_location
    /\ report.url_ok
    /\ report.attempts = << "String", "&str" >>

\* C10: <input_dir>/public is created only after the import map has been read
\* and parsed; a run that ends with a gate, read or parse failure leaves the
\* filesystem as it was; when directory creation is reached,
\* <input_dir>/public was there when import-map.json was read.
C10_NoDirectoryBeforeImportMap ==
    /\ outcome.stage \in { "gate", "read", "parse" }
       => /\ fs = fs0
          /\ ~InLog("create_dir_all")
    /\ \A i \in 1..Len(log) :
         log[i] = "create_dir_all"
         => /\ Before("read_to_string", i)
            /\ Before("parse_import_map", i)
            /\ public_at_read
            /\ IsDir(fs0, PathJoin(opt.input_dir, << "public" >>))

C10_Witness ==
    /\ InLog("create_dir_all")
    /\ public_at_read
    /\ fs = fs0

====
